---- MODULE Spec2Model ----
(***************************************************************************)
(* ETL pipeline of etl_pipeline_data_warehouse_python_postgres.ipynb:      *)
(* transform_data (pandas) and the loader (psycopg2) of the star schema.   *)
(*                                                                         *)
(* A DataFrame is a record [columns, rows]: the set of its column labels   *)
(* and the sequence of its rows, each row a function from the column       *)
(* labels (and "index", the row's index label) to values.  NaN is the      *)
(* missing value.  A string that the code inspects character by character  *)
(* (author_id) is a sequence of characters; a submission_time string       *)
(* "YYYY-MM-DD" is the tuple of its three numbers.  A csv file is a frame  *)
(* of the cells as written: a text cell may be empty or "NA".              *)
(***************************************************************************)
EXTENDS Integers, Sequences, FiniteSets, TLC

VARIABLES csv1, csv2, df1, df2, merge_order, out, pc, warehouse, txn, tbl, pos, cause

vars == <<csv1, csv2, df1, df2, merge_order, out, pc, warehouse, txn, tbl, pos, cause>>

MaxProducts == 2
MaxReviews == 2
MaxModeRows == 4

NaN == "<NaN>"

(* A missing author_id, among the character sequences of that column. *)
NaNId == <<NaN>>

-----------------------------------------------------------------------------
(* Sequence helpers.                                                       *)

SeqsUpTo(S, n) == UNION {[1..k -> S] : k \in 0..n}

RECURSIVE PickFrom(_, _, _)
PickFrom(s, keep, i) ==
    IF i > Len(s) THEN <<>>
    ELSE (IF i \in keep THEN <<s[i]>> ELSE <<>>) \o PickFrom(s, keep, i + 1)

Pick(s, keep) == PickFrom(s, keep, 1)

Flatten(ss) ==
    LET F[i \in 0..Len(ss)] == IF i = 0 THEN <<>> ELSE F[i - 1] \o ss[i]
    IN F[Len(ss)]

-----------------------------------------------------------------------------
(* The columns extract_data keeps from the two csv files.                  *)

Cols1 == {"product_id", "brand_id", "loves_count", "rating", "reviews",
          "primary_category", "child_count"}

Cols2 == {"author_id", "rating", "submission_time", "review_text",
          "review_title", "skin_tone", "eye_color", "skin_type", "hair_color",
          "product_id", "product_name", "brand_name", "price_usd"}

-----------------------------------------------------------------------------
(* str.isdigit and int on the characters of a reviewer id.  "ar3" is       *)
(* U+0663 ARABIC-INDIC DIGIT THREE (a decimal digit), "sup2" is U+00B2     *)
(* SUPERSCRIPT TWO (a digit, but no decimal digit).                        *)

AsciiDigits == {"0", "1", "2", "3", "4", "5", "6", "7", "8", "9"}

IsDecimalChar(c) == c \in AsciiDigits \cup {"ar3"}

IsDigitChar(c) == IsDecimalChar(c) \/ c = "sup2"

DigitValue(c) ==
    CASE c = "0" -> 0 [] c = "1" -> 1 [] c = "2" -> 2 [] c = "3" -> 3
      [] c = "4" -> 4 [] c = "5" -> 5 [] c = "6" -> 6 [] c = "7" -> 7
      [] c = "8" -> 8 [] c = "9" -> 9 [] c = "ar3" -> 3

isdigit(s) == Len(s) > 0 /\ \A i \in 1..Len(s) : IsDigitChar(s[i])

(* str() of a missing author_id is the text nan. *)
str(val) == IF val = NaNId THEN <<"n", "a", "n">> ELSE val

checkNumeric(val) == IF isdigit(str(val)) THEN TRUE ELSE FALSE

(* int(x) of a string: surrounding whitespace is stripped, one sign is    *)
(* allowed, and what is left must be a non-empty run of decimal digits.   *)
Strip(s) ==
    LET kept == {i \in 1..Len(s) : s[i] # " "}
    IN IF kept = {} THEN <<>>
       ELSE SubSeq(s, CHOOSE i \in kept : \A j \in kept : i <= j,
                      CHOOSE i \in kept : \A j \in kept : j <= i)

Signed(s) == Len(Strip(s)) > 0 /\ Strip(s)[1] \in {"-", "+"}

Digits(s) == IF Signed(s) THEN Tail(Strip(s)) ELSE Strip(s)

IntRaises(s) ==
    \/ Len(Digits(s)) = 0
    \/ \E i \in 1..Len(Digits(s)) : ~IsDecimalChar(Digits(s)[i])

int(s) ==
    LET d == Digits(s)
        V[i \in 0..Len(d)] ==
            IF i = 0 THEN 0 ELSE 10 * V[i - 1] + DigitValue(d[i])
    IN IF Signed(s) /\ Strip(s)[1] = "-" THEN 0 - V[Len(d)] ELSE V[Len(d)]

-----------------------------------------------------------------------------
(* extract_data: the two files are read and the columns selected.        *)

(* pd.read_csv: of its default na_values, the empty field and "NA" are    *)
(* the ones the inputs use; such a cell is read as NaN.                    *)
NaValues == {"", "NA"}

IdNaValues == {<<>>, <<"N", "A">>}

TextColumns == {"product_id", "primary_category", "review_text", "review_title",
                "skin_tone", "eye_color", "skin_type", "hair_color", "product_name",
                "brand_name"}

(* Faulty variant: read with keep_default_na=False. *)
na_filter_off(c, v) == v

na_filter(c, v) ==
    IF c = "author_id" THEN (IF v \in IdNaValues THEN NaNId ELSE v)
    ELSE IF c \in TextColumns THEN (IF v \in NaValues THEN NaN ELSE v)
    ELSE v

(* The type read_csv gives the author_id column, and the str() of its    *)
(* cells: a column of integer texts without a missing cell is int64, a    *)
(* column of number texts with or without missing cells is float64, any   *)
(* other column keeps its texts.  The number parser skips surrounding     *)
(* blanks and takes one sign.  The files are read in one chunk.           *)
IsIntText(s) ==
    /\ Len(Digits(s)) > 0
    /\ \A i \in 1..Len(Digits(s)) : Digits(s)[i] \in AsciiDigits

IsFloatText(s) ==
    \/ IsIntText(s)
    \/ /\ Cardinality({i \in 1..Len(Digits(s)) : Digits(s)[i] = "."}) = 1
       /\ \E i \in 1..Len(Digits(s)) : Digits(s)[i] \in AsciiDigits
       /\ \A i \in 1..Len(Digits(s)) : Digits(s)[i] \in AsciiDigits \cup {"."}

RECURSIVE NoLeadingZeros(_)
NoLeadingZeros(d) ==
    IF Len(d) = 0 THEN <<"0">>
    ELSE IF d[1] = "0" /\ Len(d) > 1 THEN NoLeadingZeros(Tail(d))
    ELSE d

RECURSIVE NoTrailingZeros(_)
NoTrailingZeros(d) ==
    IF Len(d) = 0 THEN <<"0">>
    ELSE IF d[Len(d)] = "0" /\ Len(d) > 1 THEN NoTrailingZeros(SubSeq(d, 1, Len(d) - 1))
    ELSE d

Minus(s) == Signed(s) /\ Strip(s)[1] = "-"

(* str() of the int64 read from an integer text *)
IntText(s) ==
    LET d == NoLeadingZeros(Digits(s))
    IN IF Minus(s) /\ d # <<"0">> THEN <<"-">> \o d ELSE d

(* str() of the float64 read from a number text *)
FloatText(s) ==
    LET u == Digits(s)
        dot == IF \E i \in 1..Len(u) : u[i] = "."
               THEN CHOOSE i \in 1..Len(u) : u[i] = "."
               ELSE Len(u) + 1
        whole == NoLeadingZeros(SubSeq(u, 1, dot - 1))
        frac == NoTrailingZeros(SubSeq(u, dot + 1, Len(u)))
    IN (IF Minus(s) THEN <<"-">> ELSE <<>>) \o whole \o <<".">> \o frac

dtype(cells) ==
    IF \A i \in 1..Len(cells) : cells[i] # NaNId /\ IsIntText(cells[i]) THEN "int64"
    ELSE IF \A i \in 1..Len(cells) : cells[i] = NaNId \/ IsFloatText(cells[i]) THEN "float64"
    ELSE "object"

astype(v, t) ==
    IF v = NaNId THEN v
    ELSE IF t = "int64" THEN IntText(v)
    ELSE IF t = "float64" THEN FloatText(v)
    ELSE v

read_csv(file) ==
    LET cell(i, c) == na_filter(c, file.rows[i][c])
        ids == IF "author_id" \in file.columns
               THEN [i \in 1..Len(file.rows) |-> cell(i, "author_id")]
               ELSE <<>>
    IN [columns |-> file.columns,
        rows |-> [i \in 1..Len(file.rows) |->
                     [c \in file.columns |->
                         IF c = "author_id" THEN astype(cell(i, c), dtype(ids))
                         ELSE cell(i, c)]]]

NoFrame == [columns |-> {}, rows |-> <<>>]

(* Faulty variant: the columns that exist are taken, none is required. *)
select_present(df, cols) ==
    [ok |-> TRUE,
     df |-> [columns |-> cols \cap df.columns,
             rows |-> [i \in 1..Len(df.rows) |->
                          [c \in cols \cap df.columns |-> df.rows[i][c]]]]]

(* df[[...]]: the listed columns; a label that is absent raises KeyError. *)
select(df, cols) ==
    IF cols \subseteq df.columns
    THEN [ok |-> TRUE,
          df |-> [columns |-> cols,
                  rows |-> [i \in 1..Len(df.rows) |-> [c \in cols |-> df.rows[i][c]]]]]
    ELSE [ok |-> FALSE, df |-> NoFrame]

extract_data(file1, file2) ==
    LET s1 == select(read_csv(file1), Cols1)
        s2 == select(read_csv(file2), Cols2)
    IN IF s1.ok /\ s2.ok
       THEN [ok |-> TRUE, df1 |-> s1.df, df2 |-> s2.df]
       ELSE [ok |-> FALSE, df1 |-> NoFrame, df2 |-> NoFrame]

-----------------------------------------------------------------------------
(* pd.to_datetime and the .dt accessors.                                   *)

IsLeap(y) == (y % 4 = 0 /\ y % 100 # 0) \/ y % 400 = 0

DaysInMonth(y, m) ==
    IF m = 2 THEN (IF IsLeap(y) THEN 29 ELSE 28)
    ELSE IF m \in {4, 6, 9, 11} THEN 30 ELSE 31

Parseable(s) ==
    /\ s[2] \in 1..12
    /\ s[3] \in 1..DaysInMonth(s[1], s[2])

to_datetime(s) == s[1] * 10000 + s[2] * 100 + s[3]

dt_year(t) == t \div 10000
dt_month(t) == (t \div 100) % 100
dt_day(t) == t % 100

-----------------------------------------------------------------------------
(* Series.mode()[0]: the most frequent non-null value, the smallest one    *)
(* when several are as frequent; no value at all raises.                   *)

SortedStrings == <<"blue", "brown", "dry", "fair", "light", "oily">>

Rank(v) == CHOOSE i \in 1..Len(SortedStrings) : SortedStrings[i] = v

Count(rows, col, v) == Cardinality({i \in 1..Len(rows) : rows[i][col] = v})

NonNull(rows, col) == {rows[i][col] : i \in 1..Len(rows)} \ {NaN}

Modes(rows, col) ==
    {v \in NonNull(rows, col) :
        \A u \in NonNull(rows, col) : Count(rows, col, u) <= Count(rows, col, v)}

Mode0(rows, col) ==
    CHOOSE v \in Modes(rows, col) : \A u \in Modes(rows, col) : Rank(v) <= Rank(u)

-----------------------------------------------------------------------------
(* The working frame of transform_data: df_merged, the statements already  *)
(* executed, and the exception that ended the call, if any.                *)

Frame(cols, rows, done) ==
    [ok |-> TRUE, raised_at |-> "", exc |-> "", done |-> done,
     columns |-> cols, rows |-> rows]

Raise(w, stmt, e) ==
    [ok |-> FALSE, raised_at |-> stmt, exc |-> e, done |-> w.done,
     columns |-> w.columns, rows |-> <<>>]

HasColumns(cols, needed) == needed \subseteq cols

MapRows(rows, F(_)) == [i \in 1..Len(rows) |-> F(rows[i])]

(* pd.merge(df1, df2, how="inner", on="product_id") *)
Overlap(c1, c2) == (c1 \cap c2) \ {"product_id"}

SuffixX(c) == IF c = "rating" THEN "rating_x" ELSE c
SuffixY(c) == IF c = "rating" THEN "rating_y" ELSE c
Unsuffix(c) == IF c \in {"rating_x", "rating_y"} THEN "rating" ELSE c

LeftLabels(c1, c2) == {IF c \in Overlap(c1, c2) THEN SuffixX(c) ELSE c : c \in c1}
RightLabels(c1, c2) ==
    {IF c \in Overlap(c1, c2) THEN SuffixY(c) ELSE c : c \in c2 \ {"product_id"}}

MergeRow(l, r, c1, c2) ==
    [c \in LeftLabels(c1, c2) |-> l[Unsuffix(c)]]
        @@ [c \in RightLabels(c1, c2) |-> r[Unsuffix(c)]]

(* The row order of an inner merge depends on the pandas in use: from     *)
(* 2.2 on the left rows keep their order; before, the left rows of one    *)
(* key come together, the keys in the order of their first left row.      *)
(* Either way the matching right rows of a left row keep their order.     *)
MergeOrders == {"left_rows", "key_groups"}

FirstLeft(d1, i) ==
    CHOOSE f \in 1..i :
        /\ d1.rows[f]["product_id"] = d1.rows[i]["product_id"]
        /\ \A g \in 1..(f - 1) : d1.rows[g]["product_id"] # d1.rows[i]["product_id"]

LeftBefore(d1, i, j) ==
    IF merge_order = "left_rows" THEN i < j
    ELSE \/ FirstLeft(d1, i) < FirstLeft(d1, j)
         \/ (FirstLeft(d1, i) = FirstLeft(d1, j) /\ i < j)

LeftOrder(d1) ==
    [k \in 1..Len(d1.rows) |->
        CHOOSE i \in 1..Len(d1.rows) :
            Cardinality({j \in 1..Len(d1.rows) : LeftBefore(d1, j, i)}) = k - 1]

MergePairs(d1, d2) ==
    Flatten([k \in 1..Len(d1.rows) |->
        LET i == LeftOrder(d1)[k]
        IN Pick([j \in 1..Len(d2.rows) |->
                    MergeRow(d1.rows[i], d2.rows[j], d1.columns, d2.columns)],
                {j \in 1..Len(d2.rows) :
                    d1.rows[i]["product_id"] = d2.rows[j]["product_id"]})])

merge(d1, d2) ==
    IF ~(HasColumns(d1.columns, {"product_id"}) /\ HasColumns(d2.columns, {"product_id"}))
    THEN Raise(Frame({}, <<>>, <<>>), "merge", "KeyError")
    ELSE LET pairs == MergePairs(d1, d2)
         IN Frame(LeftLabels(d1.columns, d2.columns) \cup RightLabels(d1.columns, d2.columns),
                  [k \in 1..Len(pairs) |-> pairs[k] @@ ("index" :> k - 1)],
                  <<"merge">>)

(* df_merged.rename(columns=rename_dict) *)
rename_dict(c) ==
    CASE c = "loves_count" -> "favorites_count"
      [] c = "rating_x" -> "avg_product_rating"
      [] c = "reviews" -> "product_reviews_count"
      [] c = "primary_category" -> "product_category"
      [] c = "child_count" -> "variations_count"
      [] c = "rating_y" -> "review_rating"
      [] c = "submission_time" -> "full_date"
      [] c = "skin_tone" -> "reviewer_skin_tone"
      [] c = "skin_type" -> "reviewer_skin_type"
      [] c = "eye_color" -> "reviewer_eye_color"
      [] c = "hair_color" -> "reviewer_hair_color"
      [] c = "price_usd" -> "product_price"
      [] c = "author_id" -> "reviewer_id"
      [] OTHER -> c

RenameRow(r, D(_)) ==
    [c \in {D(x) : x \in DOMAIN r} |-> r[CHOOSE x \in DOMAIN r : D(x) = c]]

rename(w) ==
    IF ~w.ok THEN w
    ELSE [w EXCEPT !.columns = {rename_dict(c) : c \in w.columns},
                   !.rows = MapRows(w.rows, LAMBDA r : RenameRow(r, rename_dict)),
                   !.done = Append(w.done, "rename")]

(* df_merged.dropna(subset=["review_text"]) *)
isna(v) == v = NaN

dropna(w) ==
    IF ~w.ok THEN w
    ELSE IF ~HasColumns(w.columns, {"review_text"}) THEN Raise(w, "dropna", "KeyError")
    ELSE [w EXCEPT !.rows = SelectSeq(w.rows, LAMBDA r : ~isna(r["review_text"])),
                   !.done = Append(w.done, "dropna")]

(* df_merged[col] = df_merged[col].fillna(value) *)
fillna(rows, col, value) ==
    MapRows(rows, LAMBDA r : IF isna(r[col]) THEN [r EXCEPT ![col] = value] ELSE r)

fillna_title(w) ==
    IF ~w.ok THEN w
    ELSE IF ~HasColumns(w.columns, {"review_title"}) THEN Raise(w, "fillna_title", "KeyError")
    ELSE [w EXCEPT !.rows = fillna(w.rows, "review_title", "Review Provided"),
                   !.done = Append(w.done, "fillna_title")]

(* Faulty variant: a column without any value is left as it is. *)
fillna_mode_or_skip(w, col) ==
    IF ~w.ok THEN w
    ELSE IF ~HasColumns(w.columns, {col}) THEN Raise(w, "fillna_mode", "KeyError")
    ELSE IF Modes(w.rows, col) = {} THEN [w EXCEPT !.done = Append(w.done, "fillna_mode")]
    ELSE [w EXCEPT !.rows = fillna(w.rows, col, Mode0(w.rows, col)),
                   !.done = Append(w.done, "fillna_mode")]

(* df_merged[col] = df_merged[col].fillna(df_merged[col].mode()[0]) *)
fillna_mode(w, col) ==
    IF ~w.ok THEN w
    ELSE IF ~HasColumns(w.columns, {col}) THEN Raise(w, "fillna_mode", "KeyError")
    ELSE IF Modes(w.rows, col) = {} THEN Raise(w, "fillna_mode", "KeyError")
    ELSE [w EXCEPT !.rows = fillna(w.rows, col, Mode0(w.rows, col)),
                   !.done = Append(w.done, "fillna_mode")]

(* full_date = pd.to_datetime(full_date); year, month, day *)
(* Faulty variant: only the rows the reviewer-id filter keeps are parsed. *)
parse_dates_of_kept(w) ==
    IF ~w.ok THEN w
    ELSE IF ~HasColumns(w.columns, {"full_date"}) THEN Raise(w, "to_datetime", "KeyError")
    ELSE IF \E i \in 1..Len(w.rows) :
                /\ ~Parseable(w.rows[i]["full_date"])
                /\ isdigit(w.rows[i]["reviewer_id"])
         THEN Raise(w, "to_datetime", "ValueError")
    ELSE [w EXCEPT !.columns = @ \cup {"year", "month", "day"},
                   !.rows = MapRows(w.rows, LAMBDA r :
                       LET t == to_datetime(r["full_date"])
                       IN ("year" :> dt_year(t)) @@ ("month" :> dt_month(t))
                            @@ ("day" :> dt_day(t)) @@ [r EXCEPT !["full_date"] = t]),
                   !.done = Append(w.done, "to_datetime")]

parse_dates(w) ==
    IF ~w.ok THEN w
    ELSE IF ~HasColumns(w.columns, {"full_date"}) THEN Raise(w, "to_datetime", "KeyError")
    ELSE IF \E i \in 1..Len(w.rows) : ~Parseable(w.rows[i]["full_date"])
         THEN Raise(w, "to_datetime", "ValueError")
    ELSE [w EXCEPT !.columns = @ \cup {"year", "month", "day"},
                   !.rows = MapRows(w.rows, LAMBDA r :
                       LET t == to_datetime(r["full_date"])
                       IN ("year" :> dt_year(t)) @@ ("month" :> dt_month(t))
                            @@ ("day" :> dt_day(t)) @@ [r EXCEPT !["full_date"] = t]),
                   !.done = Append(w.done, "to_datetime")]

(* is_numeric = reviewer_id.apply(checkNumeric); keep is_numeric == True;  *)
(* drop is_numeric                                                         *)
filter_numeric(w) ==
    IF ~w.ok THEN w
    ELSE IF ~HasColumns(w.columns, {"reviewer_id"}) THEN Raise(w, "checkNumeric", "KeyError")
    ELSE [w EXCEPT !.rows = SelectSeq(w.rows, LAMBDA r : checkNumeric(r["reviewer_id"]) = TRUE),
                   !.done = Append(w.done, "checkNumeric")]

(* reviewer_id = reviewer_id.apply(lambda x: int(x)) *)
to_int(w) ==
    IF ~w.ok THEN w
    ELSE IF \E i \in 1..Len(w.rows) : IntRaises(w.rows[i]["reviewer_id"])
         THEN Raise(w, "int", "ValueError")
    ELSE [w EXCEPT !.rows = MapRows(w.rows, LAMBDA r :
                       [r EXCEPT !["reviewer_id"] = int(r["reviewer_id"])]),
                   !.done = Append(w.done, "int")]

(* Faulty variant: the modes are taken after the reviewer-id filter. *)
clean_mode_after_filter(d1, d2) ==
    LET w1 == merge(d1, d2)
        w2 == rename(w1)
        w3 == dropna(w2)
        w4 == fillna_title(w3)
        w5 == parse_dates(w4)
        w6 == filter_numeric(w5)
        w7 == fillna_mode(w6, "reviewer_skin_tone")
        w8 == fillna_mode(w7, "reviewer_eye_color")
        w9 == fillna_mode(w8, "reviewer_skin_type")
        w10 == fillna_mode(w9, "reviewer_hair_color")
    IN to_int(w10)

(* The cleaning part of transform_data, up to the final df_merged. *)
clean(d1, d2) ==
    LET w1 == merge(d1, d2)
        w2 == rename(w1)
        w3 == dropna(w2)
        w4 == fillna_title(w3)
        w5 == fillna_mode(w4, "reviewer_skin_tone")
        w6 == fillna_mode(w5, "reviewer_eye_color")
        w7 == fillna_mode(w6, "reviewer_skin_type")
        w8 == fillna_mode(w7, "reviewer_hair_color")
        w9 == parse_dates(w8)
        w10 == filter_numeric(w9)
    IN to_int(w10)

-----------------------------------------------------------------------------
(* The five output frames.                                                 *)

ReviewsColumns == {"product_id", "brand_id", "reviewer_id", "full_date",
                   "review_title", "review_text", "review_rating"}
ProductColumns == {"product_id", "product_name", "avg_product_rating", "product_price",
                   "product_reviews_count", "favorites_count", "variations_count",
                   "product_category"}
BrandColumns == {"brand_id", "brand_name"}
ReviewerColumns == {"reviewer_id", "reviewer_skin_tone", "reviewer_skin_type",
                    "reviewer_eye_color", "reviewer_hair_color"}
DateColumns == {"full_date", "year", "month", "day"}

date_rename(c) == IF c = "full_date" THEN "date_id" ELSE c

Project(rows, cols) == MapRows(rows, LAMBDA r : [c \in cols |-> r[c]])

(* Faulty variants: keep=False, no deduplication, keep="last". *)
drop_duplicates_keep_none(rows, key) ==
    Pick(rows, {i \in 1..Len(rows) :
        \A j \in 1..Len(rows) : j # i => rows[j][key] # rows[i][key]})

drop_duplicates_skipped(rows, key) == rows

drop_duplicates_keep_last(rows, key) ==
    Pick(rows, {i \in 1..Len(rows) :
        \A j \in (i + 1)..Len(rows) : rows[j][key] # rows[i][key]})

(* Faulty variant: only the first row of the frame is kept. *)
drop_duplicates_first_only(rows, key) ==
    IF rows = <<>> THEN <<>> ELSE <<rows[1]>>

(* DataFrame.drop_duplicates(key): the first row of each key is kept. *)
drop_duplicates(rows, key) ==
    Pick(rows, {i \in 1..Len(rows) : \A j \in 1..(i - 1) : rows[j][key] # rows[i][key]})

(* reset_index(drop=True); insert(0, "review_id", index + 1) *)
with_review_id(rows) == [k \in 1..Len(rows) |-> rows[k] @@ ("review_id" :> k)]

NoOutputs(w) ==
    [status |-> "error", raised_at |-> w.raised_at, exc |-> w.exc, done |-> w.done,
     df_merged |-> <<>>, reviews_df |-> <<>>, product_df |-> <<>>, brand_df |-> <<>>,
     reviewer_df |-> <<>>, date_df |-> <<>>]

FirstMissing(cols) ==
    IF ~HasColumns(cols, ReviewsColumns) THEN "reviews_df"
    ELSE IF ~HasColumns(cols, ProductColumns) THEN "product_df"
    ELSE IF ~HasColumns(cols, BrandColumns) THEN "brand_df"
    ELSE IF ~HasColumns(cols, ReviewerColumns) THEN "reviewer_df"
    ELSE IF ~HasColumns(cols, DateColumns) THEN "date_df"
    ELSE ""

transform_data(d1, d2) ==
    LET w == clean(d1, d2)
    IN IF ~w.ok THEN NoOutputs(w)
       ELSE IF FirstMissing(w.columns) # ""
            THEN NoOutputs(Raise(w, FirstMissing(w.columns), "KeyError"))
       ELSE [status |-> "ok", raised_at |-> "", exc |-> "", done |-> w.done,
             df_merged |-> w.rows,
             reviews_df |->
                 with_review_id(MapRows(Project(w.rows, ReviewsColumns),
                                        LAMBDA r : RenameRow(r, date_rename))),
             product_df |-> drop_duplicates(Project(w.rows, ProductColumns), "product_id"),
             brand_df |-> drop_duplicates(Project(w.rows, BrandColumns), "brand_id"),
             reviewer_df |-> drop_duplicates(Project(w.rows, ReviewerColumns), "reviewer_id"),
             date_df |->
                 drop_duplicates(MapRows(Project(w.rows, DateColumns),
                                         LAMBDA r : RenameRow(r, date_rename)), "date_id")]

-----------------------------------------------------------------------------
(* The schema of CREATE_TABLE_QUERIES and the loader.                      *)

(* Faulty variant: the fact table is loaded first. *)
LoadOrderFactFirst == <<"reviews", "product", "brand", "reviewer", "date">>

LoadOrder == <<"product", "brand", "reviewer", "date", "reviews">>

EmptyTables ==
    [product |-> <<>>, brand |-> <<>>, reviewer |-> <<>>, date |-> <<>>, reviews |-> <<>>]

Keys(rows, key) == {rows[i][key] : i \in 1..Len(rows)}

(* PRIMARY KEY and UNIQUE of each table.  A missing brand_name reaches    *)
(* the insert as a float nan and is stored as a text like any other, so   *)
(* two of them collide.                                                    *)
UniqueViolated(t, name, row) ==
    CASE name = "product" -> row["product_id"] \in Keys(t.product, "product_id")
      [] name = "brand" -> \/ row["brand_id"] \in Keys(t.brand, "brand_id")
                           \/ row["brand_name"] \in Keys(t.brand, "brand_name")
      [] name = "reviewer" -> row["reviewer_id"] \in Keys(t.reviewer, "reviewer_id")
      [] name = "date" -> row["date_id"] \in Keys(t.date, "date_id")
      [] name = "reviews" -> row["review_id"] \in Keys(t.reviews, "review_id")

(* REFERENCES of tbl_product_reviews. *)
ForeignKeyViolated(t, name, row) ==
    /\ name = "reviews"
    /\ \/ row["product_id"] \notin Keys(t.product, "product_id")
       \/ row["brand_id"] \notin Keys(t.brand, "brand_id")
       \/ row["reviewer_id"] \notin Keys(t.reviewer, "reviewer_id")
       \/ row["date_id"] \notin Keys(t.date, "date_id")

ConstraintViolated(t, name, row) ==
    UniqueViolated(t, name, row) \/ ForeignKeyViolated(t, name, row)

(* The frame insert_data_to_tables iterates for each table. *)
FrameOf(o, name) ==
    CASE name = "product" -> o.product_df
      [] name = "brand" -> o.brand_df
      [] name = "reviewer" -> o.reviewer_df
      [] name = "date" -> o.date_df
      [] name = "reviews" -> o.reviews_df

OutTables(o) == [n \in DOMAIN EmptyTables |-> FrameOf(o, n)]

NoDatabase == [exists |-> FALSE, created |-> FALSE, dropped |-> FALSE, tables |-> EmptyTables]

(* What an earlier run of the pipeline left in the warehouse. *)
EarlierRun ==
    [exists |-> TRUE, created |-> TRUE, dropped |-> FALSE,
     tables |-> [EmptyTables EXCEPT
         !.brand = <<[brand_id |-> 9, brand_name |-> "BrandZ"]>>,
         !.date = <<[date_id |-> 20220101, year |-> 2022, month |-> 1, day |-> 1]>>]]

-----------------------------------------------------------------------------
(* Inputs.                                                                 *)

ProductRow(pid, bid, loves) ==
    [product_id |-> pid, brand_id |-> bid, loves_count |-> loves, rating |-> 4,
     reviews |-> 11, primary_category |-> "Skincare", child_count |-> 0]

(* Two attribute sets a review row can carry. *)
Profile(p) ==
    IF p = 1
    THEN [product_name |-> "Cream", brand_name |-> "BrandX", price_usd |-> 10,
          rating |-> 5, skin_tone |-> "fair", time |-> <<2023, 1, 5>>]
    ELSE [product_name |-> "Creme", brand_name |-> "BrandY", price_usd |-> 20,
          rating |-> 3, skin_tone |-> "light", time |-> <<2024, 2, 29>>]

ReviewRow(pid, aid, time, text, title, tone, p) ==
    [author_id |-> aid, rating |-> Profile(p).rating, submission_time |-> time,
     review_text |-> text, review_title |-> title, skin_tone |-> tone,
     eye_color |-> "brown", skin_type |-> "dry", hair_color |-> "brown",
     product_id |-> pid, product_name |-> Profile(p).product_name,
     brand_name |-> Profile(p).brand_name, price_usd |-> Profile(p).price_usd]

(* A csv file with the given header and rows. *)
CsvFile(cols, rows) ==
    [columns |-> cols, rows |-> MapRows(rows, LAMBDA r : [c \in cols |-> r[c]])]

GoodDay == <<2023, 1, 5>>
BadDay == <<2023, 2, 30>>

NoOut ==
    [status |-> "none", raised_at |-> "", exc |-> "", done |-> <<>>,
     df_merged |-> <<>>, reviews_df |-> <<>>, product_df |-> <<>>, brand_df |-> <<>>,
     reviewer_df |-> <<>>, date_df |-> <<>>]

(* The state in which run_etl_pipeline is called. *)
Start(w0) ==
    /\ df1 = NoFrame
    /\ df2 = NoFrame
    /\ out = NoOut
    /\ pc = "start"
    /\ warehouse = w0
    /\ txn = EmptyTables
    /\ tbl = 0
    /\ pos = 0
    /\ cause = ""

(* Key family: keys and attributes vary.                                  *)
KeyProductRows == {ProductRow("P1", 1, 7), ProductRow("P2", 1, 8), ProductRow("P2", 2, 9)}

(* A product file in which another key stands between the two rows of one *)
(* key: the two merge orders differ on it.                                 *)
SplitKeyProducts == <<ProductRow("P2", 1, 8), ProductRow("P1", 1, 7), ProductRow("P2", 2, 9)>>

KeyAuthors == {<<<<"7">>, 1>>, <<<<"0", "7">>, 2>>, <<<<"8">>, 1>>, <<<<"x">>, 2>>}

KeyReviews ==
    {r \in {"P1", "P2"} \X KeyAuthors : r[1] = "P2" \/ r[2][1] \in {<<"7">>, <<"0", "7">>}}

KeyReviewRows ==
    {ReviewRow(r[1], r[2][1], Profile(r[2][2]).time, "Great", "Title",
               Profile(r[2][2]).skin_tone, r[2][2]) : r \in KeyReviews}

(* A review file whose author_id column stays text: the ids "7" and "07"  *)
(* next to a non-numeric one.                                              *)
MixedIdReviews ==
    <<ReviewRow("P1", <<"7">>, Profile(1).time, "Great", "Title", Profile(1).skin_tone, 1),
      ReviewRow("P2", <<"0", "7">>, Profile(2).time, "Great", "Title", Profile(2).skin_tone, 2),
      ReviewRow("P2", <<"x">>, Profile(2).time, "Great", "Title", Profile(2).skin_tone, 2)>>

(* A review file in which the only review of P1 has an empty text.       *)
NullTextReviews ==
    <<ReviewRow("P1", <<"7">>, Profile(1).time, "", "Title", Profile(1).skin_tone, 1),
      ReviewRow("P2", <<"8">>, Profile(2).time, "Great", "Title", Profile(2).skin_tone, 2)>>

InitKeys ==
    /\ \E ps \in SeqsUpTo(KeyProductRows, MaxProducts) \cup {SplitKeyProducts} :
           csv1 = CsvFile(Cols1, ps)
    /\ \E rs \in SeqsUpTo(KeyReviewRows, MaxReviews) \cup {MixedIdReviews, NullTextReviews} :
           csv2 = CsvFile(Cols2, rs)
    /\ merge_order \in MergeOrders
    /\ Start(NoDatabase)

(* Cleaning family: one product; reviewer ids, texts and timestamps vary. *)
(* With one product row the two merge orders give the same frame.         *)
SampleIds ==
    {<<>>, <<"7">>, <<"0", "7">>, <<"-", "5">>, <<"1", "2", ".", "0">>, <<" ", "7">>,
     <<"x">>, <<"ar3">>, <<"sup2">>, <<"1", "sup2">>}

CleanReviewRows ==
    {ReviewRow("P1", a, GoodDay, "Great", "Title", "fair", 1) : a \in SampleIds}
        \cup {ReviewRow("P1", a, t, x, "Title", "fair", 1) :
                a \in {<<"7">>, <<"x">>}, t \in {GoodDay, BadDay}, x \in {"", "NA", "Great"}}

InitClean ==
    /\ csv1 = CsvFile(Cols1, <<ProductRow("P1", 1, 7)>>)
    /\ \E rs \in SeqsUpTo(CleanReviewRows, MaxReviews) : csv2 = CsvFile(Cols2, rs)
    /\ merge_order = "left_rows"
    /\ Start(NoDatabase)

(* Schema family: at most one column is absent from each input. *)
SchemaReviewRows ==
    {ReviewRow("P1", <<"7">>, t, x, "Title", "fair", 1) :
        t \in {GoodDay, BadDay}, x \in {"", "Great"}}

InitSchema ==
    /\ \E c1 \in {Cols1} \cup {Cols1 \ {c} : c \in Cols1} :
           csv1 = CsvFile(c1, <<ProductRow("P1", 1, 7)>>)
    /\ \E c2 \in {Cols2} \cup {Cols2 \ {c} : c \in Cols2} :
       \E rs \in SeqsUpTo(SchemaReviewRows, MaxReviews) : csv2 = CsvFile(c2, rs)
    /\ merge_order = "left_rows"
    /\ Start(NoDatabase)

(* Mode family: one product; texts, reviewer ids and the categorical      *)
(* reviewer columns vary.                                                  *)
ModeReviewRows ==
    {ReviewRow("P1", <<"7">>, GoodDay, "", "Title", "fair", 1),
     ReviewRow("P1", <<"8">>, GoodDay, "Great", "Title", "", 1),
     ReviewRow("P1", <<"7">>, GoodDay, "Great", "Title", "fair", 1),
     ReviewRow("P1", <<"x">>, GoodDay, "Great", "Title", "light", 1),
     [ReviewRow("P1", <<"7">>, GoodDay, "Great", "Title", "fair", 1) EXCEPT !.eye_color = ""],
     [ReviewRow("P1", <<"7">>, GoodDay, "Great", "Title", "fair", 1) EXCEPT !.skin_type = ""],
     [ReviewRow("P1", <<"7">>, GoodDay, "Great", "Title", "fair", 1) EXCEPT !.hair_color = ""]}

InitMode ==
    /\ csv1 = CsvFile(Cols1, <<ProductRow("P1", 1, 7)>>)
    /\ \E rs \in SeqsUpTo(ModeReviewRows, MaxModeRows) : csv2 = CsvFile(Cols2, rs)
    /\ merge_order = "left_rows"
    /\ Start(NoDatabase)

(* Pipeline runs: the inputs of a whole run_etl_pipeline. *)
LoadProductRows == {ProductRow("P1", 1, 7), ProductRow("P2", 2, 9)}

LoadReviewRows ==
    {ReviewRow(p, a[1], Profile(a[2]).time, "Great", "Title", Profile(a[2]).skin_tone, a[2]) :
        p \in {"P1", "P2"}, a \in {<<<<"7">>, 1>>, <<<<"8">>, 2>>}}

Init ==
    /\ \E ps \in SeqsUpTo(LoadProductRows, MaxProducts) : csv1 = CsvFile(Cols1, ps)
    /\ \E rs \in SeqsUpTo(LoadReviewRows, MaxReviews) : csv2 = CsvFile(Cols2, rs)
    /\ merge_order \in MergeOrders
    /\ \E w0 \in {NoDatabase, EarlierRun} : Start(w0)

-----------------------------------------------------------------------------
(* run_etl_pipeline: extract_data, transform_data, then load_data step by *)
(* step.                                                                   *)

(* df1, df2 = extract_data(); a KeyError of the column selection leaves   *)
(* run_etl_pipeline before transform_data is called.                       *)
Extract ==
    /\ pc = "start"
    /\ \E e \in {extract_data(csv1, csv2)} :
          /\ df1' = e.df1
          /\ df2' = e.df2
          /\ pc' = IF e.ok THEN "extracted" ELSE "extract_failed"
          /\ out' = IF e.ok THEN out
                    ELSE [NoOut EXCEPT !.status = "error", !.raised_at = "extract_data",
                                       !.exc = "KeyError"]
    /\ UNCHANGED <<csv1, csv2, merge_order, warehouse, txn, tbl, pos, cause>>

Transform ==
    /\ pc = "extracted"
    /\ out' = transform_data(df1, df2)
    /\ pc' = IF out'.status = "ok" THEN "transformed" ELSE "failed"
    /\ UNCHANGED <<csv1, csv2, df1, df2, merge_order, warehouse, txn, tbl, pos, cause>>

(* create_datawarehouse: psycopg2.connect to the default database or     *)
(* DROP DATABASE raises; nothing is changed and the exception leaves      *)
(* load_data.                                                              *)
CreateDatawarehouseFails ==
    /\ pc = "transformed"
    /\ \E c \in {"dw_connect", "drop_db"} : cause' = c
    /\ pc' = "raised"
    /\ UNCHANGED <<csv1, csv2, df1, df2, merge_order, out, warehouse, txn, tbl, pos>>

(* Faulty variant: the database of the earlier run is not dropped. *)
DropDatabaseSkipped ==
    /\ pc = "transformed"
    /\ pc' = "db_dropped"
    /\ UNCHANGED <<csv1, csv2, df1, df2, merge_order, out, warehouse, txn, tbl, pos, cause>>

(* DROP DATABASE IF EXISTS, autocommitted.  The field dropped records     *)
(* that a database was there to drop.                                      *)
DropDatabase ==
    /\ pc = "transformed"
    /\ warehouse' = [exists |-> FALSE, created |-> FALSE, dropped |-> warehouse.exists,
                     tables |-> EmptyTables]
    /\ pc' = "db_dropped"
    /\ UNCHANGED <<csv1, csv2, df1, df2, merge_order, out, txn, tbl, pos, cause>>

(* CREATE DATABASE raises: no database is left and the exception leaves   *)
(* load_data.                                                              *)
CreateDatabaseFails ==
    /\ pc = "db_dropped"
    /\ cause' = "create_db"
    /\ pc' = "raised"
    /\ UNCHANGED <<csv1, csv2, df1, df2, merge_order, out, warehouse, txn, tbl, pos>>

(* CREATE DATABASE, autocommitted; the connection is closed. *)
CreateDatabase ==
    /\ pc = "db_dropped"
    /\ warehouse' = [warehouse EXCEPT !.exists = TRUE]
    /\ pc' = "db_created"
    /\ UNCHANGED <<csv1, csv2, df1, df2, merge_order, out, txn, tbl, pos, cause>>

(* connect_datawarehouse raises: the except branch of load_data calls     *)
(* restart_connection() without its argument, and the TypeError leaves    *)
(* load_data.                                                              *)
ConnectFails ==
    /\ pc = "db_created"
    /\ cause' = "connect"
    /\ pc' = "raised"
    /\ UNCHANGED <<csv1, csv2, df1, df2, merge_order, out, warehouse, txn, tbl, pos>>

(* create_tables raises inside its try: rolled back and reported, and     *)
(* load_data goes on to the inserts on a database without tables; a       *)
(* rollback that raises leaves load_data.                                  *)
CreateTablesFails ==
    /\ pc = "db_created"
    /\ \/ /\ pc' = "inserting"
          /\ tbl' = 1
          /\ pos' = 1
          /\ txn' = EmptyTables
          /\ UNCHANGED cause
       \/ /\ pc' = "raised"
          /\ cause' = "create_tables"
          /\ UNCHANGED <<txn, tbl, pos>>
    /\ UNCHANGED <<csv1, csv2, df1, df2, merge_order, out, warehouse>>

(* connect_datawarehouse; create_tables, committed. *)
CreateTables ==
    /\ pc = "db_created"
    /\ warehouse' = [warehouse EXCEPT !.created = TRUE]
    /\ pc' = "inserting"
    /\ tbl' = 1
    /\ pos' = 1
    /\ txn' = EmptyTables
    /\ UNCHANGED <<csv1, csv2, df1, df2, merge_order, out, cause>>

Inserting == pc = "inserting" /\ tbl <= Len(LoadOrder)

(* What the open transaction sees: the committed rows and its own. *)
Visible == [n \in DOMAIN EmptyTables |-> warehouse.tables[n] \o txn[n]]

CurrentTable == LoadOrder[tbl]

CurrentRows == FrameOf(out, CurrentTable)

(* cur.execute(insert query, list(row)) succeeds. *)
InsertRow ==
    /\ Inserting
    /\ pos <= Len(CurrentRows)
    /\ warehouse.created
    /\ ~ConstraintViolated(Visible, CurrentTable, CurrentRows[pos])
    /\ txn' = [txn EXCEPT ![CurrentTable] = Append(@, CurrentRows[pos])]
    /\ pos' = pos + 1
    /\ UNCHANGED <<csv1, csv2, df1, df2, merge_order, out, pc, warehouse, tbl, cause>>

(* Faulty variant: the except branch commits what was inserted so far. *)
InsertFailsCommits ==
    /\ Inserting
    /\ pos <= Len(CurrentRows)
    /\ \E c \in {"constraint", "no_table", "other"} :
        /\ c = "constraint" =>
            warehouse.created /\ ConstraintViolated(Visible, CurrentTable, CurrentRows[pos])
        /\ c = "no_table" <=> ~warehouse.created
        /\ cause' = c
    /\ warehouse' = [warehouse EXCEPT !.tables = Visible]
    /\ txn' = EmptyTables
    /\ \E p \in {"rolled_back", "raised"} : pc' = p
    /\ UNCHANGED <<csv1, csv2, df1, df2, merge_order, out, tbl, pos>>

(* cur.execute raises: the except branch rolls the transaction back; a   *)
(* rollback that raises leaves load_data with the connection open, and    *)
(* nothing is committed either.                                            *)
InsertFails ==
    /\ Inserting
    /\ pos <= Len(CurrentRows)
    /\ \E c \in {"constraint", "no_table", "other"} :
        /\ c = "constraint" =>
            warehouse.created /\ ConstraintViolated(Visible, CurrentTable, CurrentRows[pos])
        /\ c = "no_table" <=> ~warehouse.created
        /\ cause' = c
    /\ txn' = EmptyTables
    /\ \E p \in {"rolled_back", "raised"} : pc' = p
    /\ UNCHANGED <<csv1, csv2, df1, df2, merge_order, out, warehouse, tbl, pos>>

(* The for loop of one table is exhausted. *)
NextTable ==
    /\ Inserting
    /\ pos > Len(CurrentRows)
    /\ tbl' = tbl + 1
    /\ pos' = 1
    /\ UNCHANGED <<csv1, csv2, df1, df2, merge_order, out, pc, warehouse, txn, cause>>

(* conn.commit() after the five loops. *)
Commit ==
    /\ pc = "inserting"
    /\ tbl > Len(LoadOrder)
    /\ warehouse' = [warehouse EXCEPT !.tables = Visible]
    /\ txn' = EmptyTables
    /\ pc' = "committed"
    /\ UNCHANGED <<csv1, csv2, df1, df2, merge_order, out, tbl, pos, cause>>

(* conn.commit() raises: it stands inside the try, so the except branch   *)
(* runs and nothing is committed although every insert succeeded.         *)
CommitFails ==
    /\ pc = "inserting"
    /\ tbl > Len(LoadOrder)
    /\ cause' = "commit"
    /\ txn' = EmptyTables
    /\ \E p \in {"rolled_back", "raised"} : pc' = p
    /\ UNCHANGED <<csv1, csv2, df1, df2, merge_order, out, warehouse, tbl, pos>>

(* dw_conn.close() *)
Close ==
    /\ pc \in {"committed", "rolled_back"}
    /\ pc' = "done"
    /\ UNCHANGED <<csv1, csv2, df1, df2, merge_order, out, warehouse, txn, tbl, pos, cause>>

Next ==
    \/ Extract
    \/ Transform
    \/ CreateDatawarehouseFails
    \/ DropDatabase
    \/ CreateDatabaseFails
    \/ CreateDatabase
    \/ ConnectFails
    \/ CreateTablesFails
    \/ CreateTables
    \/ InsertRow
    \/ InsertFails
    \/ NextTable
    \/ Commit
    \/ CommitFails
    \/ Close

Spec == Init /\ [][Next]_vars

(* run_etl_pipeline up to the return of transform_data. *)
ExtractTransform ==
    \/ Extract
    \/ Transform

SpecKeys == InitKeys /\ [][ExtractTransform]_vars

SpecClean == InitClean /\ [][ExtractTransform]_vars

SpecSchema == InitSchema /\ [][ExtractTransform]_vars

SpecMode == InitMode /\ [][ExtractTransform]_vars

-----------------------------------------------------------------------------
(* The table and connection helpers that load_data does not call (its      *)
(* calls of the first two are comments), called from a cell of the         *)
(* notebook on a connection that connect_datawarehouse returned.           *)

(* A warehouse with one row in each dimension table and two fact rows. *)
LoadedRun ==
    [exists |-> TRUE, created |-> TRUE, dropped |-> FALSE,
     tables |->
        [product |-> <<[product_id |-> "P0", product_name |-> "Balm",
                        avg_product_rating |-> 4, product_price |-> 10,
                        product_reviews_count |-> 11, favorites_count |-> 7,
                        variations_count |-> 0, product_category |-> "Skincare"]>>,
         brand |-> <<[brand_id |-> 9, brand_name |-> "BrandZ"]>>,
         reviewer |-> <<[reviewer_id |-> 5, reviewer_skin_tone |-> "fair",
                         reviewer_skin_type |-> "dry", reviewer_eye_color |-> "brown",
                         reviewer_hair_color |-> "brown"]>>,
         date |-> <<[date_id |-> 20220101, year |-> 2022, month |-> 1, day |-> 1]>>,
         reviews |-> [k \in 1..2 |->
                        [review_id |-> k, product_id |-> "P0", brand_id |-> 9,
                         reviewer_id |-> 5, date_id |-> 20220101, review_title |-> "Title",
                         review_text |-> "Great", review_rating |-> 5]]]]

EmptyRun == [exists |-> TRUE, created |-> TRUE, dropped |-> FALSE, tables |-> EmptyTables]

NoTables == [exists |-> TRUE, created |-> FALSE, dropped |-> FALSE, tables |-> EmptyTables]

(* The rows a connection has inserted and not committed. *)
Uncommitted ==
    {EmptyTables,
     [EmptyTables EXCEPT !.brand = <<[brand_id |-> 8, brand_name |-> "BrandW"]>>],
     [EmptyTables EXCEPT !.brand = <<[brand_id |-> 8, brand_name |-> "BrandW"]>>,
                         !.date = <<[date_id |-> 20230105, year |-> 2023, month |-> 1,
                                     day |-> 5]>>]}

InitTables ==
    /\ csv1 = CsvFile(Cols1, <<>>)
    /\ csv2 = CsvFile(Cols2, <<>>)
    /\ df1 = NoFrame
    /\ df2 = NoFrame
    /\ merge_order = "left_rows"
    /\ out = NoOut
    /\ pc = "connected"
    /\ warehouse \in {LoadedRun, EarlierRun, EmptyRun, NoTables}
    /\ txn \in Uncommitted
    /\ warehouse.created \/ txn = EmptyTables
    /\ tbl = 0
    /\ pos = 0
    /\ cause = ""

(* The except branch shared by the two functions: conn.rollback() ends    *)
(* the transaction, the uncommitted rows with it, and the function         *)
(* returns; a rollback that raises leaves the function.                    *)
RolledBack(c) ==
    /\ cause' = c
    /\ txn' = EmptyTables
    /\ \E p \in {"connected", "raised"} : pc' = p
    /\ UNCHANGED warehouse

(* truncate_existing_tables(cur, conn, TRUNCATE_TABLE_QUERIES): the five  *)
(* TRUNCATE statements and the commit, in the transaction that holds the   *)
(* uncommitted rows; or a statement raises (always when a table is         *)
(* missing), or the commit does.                                           *)
truncate_existing_tables ==
    /\ pc = "connected"
    /\ \/ /\ warehouse.created
          /\ warehouse' = [warehouse EXCEPT !.tables = EmptyTables]
          /\ txn' = EmptyTables
          /\ UNCHANGED <<pc, cause>>
       \/ \E c \in {"no_table", "other", "commit"} :
            /\ c = "no_table" <=> ~warehouse.created
            /\ RolledBack(c)
    /\ UNCHANGED <<csv1, csv2, df1, df2, merge_order, out, tbl, pos>>

(* drop_existing_tables(cur, conn, DROP_TABLE_QUERIES): the five DROP     *)
(* TABLE statements (without IF EXISTS) and the commit; or a statement     *)
(* raises (always when a table is missing), or the commit does.            *)
drop_existing_tables ==
    /\ pc = "connected"
    /\ \/ /\ warehouse.created
          /\ warehouse' = [warehouse EXCEPT !.created = FALSE, !.tables = EmptyTables]
          /\ txn' = EmptyTables
          /\ UNCHANGED <<pc, cause>>
       \/ \E c \in {"no_table", "other", "commit"} :
            /\ c = "no_table" <=> ~warehouse.created
            /\ RolledBack(c)
    /\ UNCHANGED <<csv1, csv2, df1, df2, merge_order, out, tbl, pos>>

(* restart_connection(conn): conn.close() discards the uncommitted rows;  *)
(* connect_datawarehouse() returns a new connection, or raises.            *)
restart_connection ==
    /\ pc = "connected"
    /\ txn' = EmptyTables
    /\ \/ UNCHANGED <<pc, cause>>
       \/ /\ pc' = "raised"
          /\ cause' = "connect"
    /\ UNCHANGED <<csv1, csv2, df1, df2, merge_order, out, warehouse, tbl, pos>>

TablesNext ==
    \/ truncate_existing_tables
    \/ drop_existing_tables
    \/ restart_connection

SpecTables == InitTables /\ [][TablesNext]_vars

-----------------------------------------------------------------------------
(* Vocabulary of the properties: the merged records, stated on the inputs. *)

Returned == out.status = "ok"

Finished == pc \notin {"start", "extracted"}

(* A merged record is a pair <<i, j>> of a product row and a review row   *)
(* with equal product_id.                                                  *)
MergedPairs ==
    {p \in (1..Len(df1.rows)) \X (1..Len(df2.rows)) :
        df1.rows[p[1]]["product_id"] = df2.rows[p[2]]["product_id"]}

ProductOf(p) == df1.rows[p[1]]
ReviewOf(p) == df2.rows[p[2]]

(* Row order of the merged frame: product rows first, review rows second. *)
MergedBefore(p, q) == LeftBefore(df1, p[1], q[1]) \/ (p[1] = q[1] /\ p[2] < q[2])

(* Order of the review input alone. *)
ReviewBefore(p, q) == p[2] < q[2] \/ (p[2] = q[2] /\ p[1] < q[1])

(* The merged record that carries index label n. *)
PairAt(n) ==
    CHOOSE p \in MergedPairs : Cardinality({q \in MergedPairs : MergedBefore(q, p)}) = n

AsciiNumeric(s) == Len(s) > 0 /\ \A i \in 1..Len(s) : s[i] \in AsciiDigits

Survives(p) ==
    /\ ReviewOf(p)["review_text"] # NaN
    /\ isdigit(ReviewOf(p)["author_id"])

Survivors == {p \in MergedPairs : Survives(p)}

FirstMerged(S) == CHOOSE p \in S : \A q \in S : q = p \/ MergedBefore(p, q)

FirstReview(S) == CHOOSE p \in S : \A q \in S : q = p \/ ReviewBefore(p, q)

Occurrences(rows, key, v) == Cardinality({i \in 1..Len(rows) : rows[i][key] = v})

KeyUnique(rows, key) ==
    \A i, j \in 1..Len(rows) : i # j => rows[i][key] # rows[j][key]

-----------------------------------------------------------------------------
(* C1: every fact row's product_id, brand_id, reviewer_id and date_id     *)
(* occurs exactly once as the key of a row of the matching dimension.     *)
C1_ReferentialClosure ==
    Returned =>
        \A k \in 1..Len(out.reviews_df) :
            LET f == out.reviews_df[k]
            IN /\ Occurrences(out.product_df, "product_id", f["product_id"]) = 1
               /\ Occurrences(out.brand_df, "brand_id", f["brand_id"]) = 1
               /\ Occurrences(out.reviewer_df, "reviewer_id", f["reviewer_id"]) = 1
               /\ Occurrences(out.date_df, "date_id", f["date_id"]) = 1

(* Two fact rows that reference the same row of every dimension. *)
C1_Witness ==
    /\ Returned
    /\ Len(out.reviews_df) = 2
    /\ Len(out.product_df) = 1
    /\ Len(out.brand_df) = 1
    /\ Len(out.reviewer_df) = 1
    /\ Len(out.date_df) = 1

(* C2: no two rows of a dimension output share that dimension's key.      *)
C2_KeyUniqueness ==
    Returned =>
        /\ KeyUnique(out.product_df, "product_id")
        /\ KeyUnique(out.brand_df, "brand_id")
        /\ KeyUnique(out.reviewer_df, "reviewer_id")
        /\ KeyUnique(out.date_df, "date_id")

(* Two reviews whose ids "7" and "07" are one reviewer key, on two products. *)
C2_Witness ==
    /\ Returned
    /\ Len(out.reviews_df) = 2
    /\ Len(out.reviewer_df) = 1
    /\ Len(out.product_df) = 2
    /\ \E p, q \in Survivors : ReviewOf(p)["author_id"] # ReviewOf(q)["author_id"]

(* C5 as stated: a dimension row holds the attributes of the first row,   *)
(* in the order of the review input, among the surviving rows with its    *)
(* key.                                                                    *)
C5_FirstInReviewOrder ==
    Returned =>
        /\ \A k \in 1..Len(out.reviewer_df) :
            LET d == out.reviewer_df[k]
                p == FirstReview({q \in Survivors :
                                    int(ReviewOf(q)["author_id"]) = d["reviewer_id"]})
            IN d["reviewer_skin_tone"] = ReviewOf(p)["skin_tone"]
        /\ \A k \in 1..Len(out.brand_df) :
            LET d == out.brand_df[k]
                p == FirstReview({q \in Survivors : ProductOf(q)["brand_id"] = d["brand_id"]})
            IN d["brand_name"] = ReviewOf(p)["brand_name"]

(* C5 amended: a dimension row holds the attributes of the first row, in  *)
(* the row order of the merged frame (product input order, then review    *)
(* input order), among the surviving rows with its key.                   *)
C5_FirstInMergedOrder ==
    Returned =>
        /\ \A k \in 1..Len(out.product_df) :
            LET d == out.product_df[k]
                p == FirstMerged({q \in Survivors :
                                    ProductOf(q)["product_id"] = d["product_id"]})
            IN /\ d["product_name"] = ReviewOf(p)["product_name"]
               /\ d["product_price"] = ReviewOf(p)["price_usd"]
               /\ d["favorites_count"] = ProductOf(p)["loves_count"]
        /\ \A k \in 1..Len(out.brand_df) :
            LET d == out.brand_df[k]
                p == FirstMerged({q \in Survivors : ProductOf(q)["brand_id"] = d["brand_id"]})
            IN d["brand_name"] = ReviewOf(p)["brand_name"]
        /\ \A k \in 1..Len(out.reviewer_df) :
            LET d == out.reviewer_df[k]
                p == FirstMerged({q \in Survivors :
                                    int(ReviewOf(q)["author_id"]) = d["reviewer_id"]})
            IN d["reviewer_skin_tone"] = ReviewOf(p)["skin_tone"]
        /\ \A k \in 1..Len(out.date_df) :
            LET d == out.date_df[k]
                p == FirstMerged({q \in Survivors :
                                    to_datetime(ReviewOf(q)["submission_time"]) = d["date_id"]})
            IN /\ d["year"] = ReviewOf(p)["submission_time"][1]
               /\ d["month"] = ReviewOf(p)["submission_time"][2]
               /\ d["day"] = ReviewOf(p)["submission_time"][3]

(* Two surviving rows of one reviewer with different skin tones, the one  *)
(* that is first in the merged frame being second in the review input.    *)
C5_Witness ==
    /\ Returned
    /\ \E p, q \in Survivors :
        /\ int(ReviewOf(p)["author_id"]) = int(ReviewOf(q)["author_id"])
        /\ ReviewOf(p)["skin_tone"] # ReviewOf(q)["skin_tone"]
        /\ MergedBefore(p, q)
        /\ ReviewBefore(q, p)
        /\ \E k \in 1..Len(out.reviewer_df) :
            /\ out.reviewer_df[k]["reviewer_id"] = int(ReviewOf(p)["author_id"])
            /\ out.reviewer_df[k]["reviewer_skin_tone"] = ReviewOf(p)["skin_tone"]

-----------------------------------------------------------------------------
(* C3 as stated: an id is accepted iff it is a non-empty string of ASCII  *)
(* digits; a rejected id never aborts the run and leaves no fact row and  *)
(* no reviewer row; an accepted id is stored as the integer it denotes.   *)
C3_ReviewerNumericFilter ==
    LET accepted == {p \in MergedPairs :
                        /\ ReviewOf(p)["review_text"] # NaN
                        /\ AsciiNumeric(ReviewOf(p)["author_id"])}
    IN /\ out.raised_at # "int"
       /\ Returned =>
            /\ {PairAt(out.df_merged[k]["index"]) : k \in 1..Len(out.df_merged)} = accepted
            /\ \A k \in 1..Len(out.df_merged) :
                out.reviews_df[k]["reviewer_id"]
                    = int(ReviewOf(PairAt(out.df_merged[k]["index"]))["author_id"])
            /\ Keys(out.reviewer_df, "reviewer_id")
                    = {int(ReviewOf(p)["author_id"]) : p \in accepted}

(* The review_text cell of a merged record as the csv file has it. *)
CsvText(p) == csv2.rows[p[2]]["review_text"]

(* C4: a merged row whose review_text is null (an empty field or "NA" in  *)
(* the file) yields no fact row; every fact row carries the text of the   *)
(* merged row it comes from, which is neither null nor empty.             *)
C4_NoNullOrEmptyText ==
    /\ pc \notin {"start", "extract_failed"} =>
        \A p \in MergedPairs :
            CsvText(p) \in NaValues <=> ReviewOf(p)["review_text"] = NaN
    /\ Returned =>
        /\ Len(out.reviews_df) = Len(out.df_merged)
        /\ \A k \in 1..Len(out.reviews_df) :
            LET p == PairAt(out.df_merged[k]["index"])
            IN /\ CsvText(p) \notin NaValues
               /\ ReviewOf(p)["review_text"] \notin {NaN, ""}
               /\ out.reviews_df[k]["review_text"] = CsvText(p)

(* A review with an empty text field and a numeric reviewer id is dropped *)
(* next to a review that is kept.                                          *)
C4_Witness ==
    /\ Returned
    /\ Len(out.reviews_df) = 1
    /\ \E p \in MergedPairs :
        /\ CsvText(p) = ""
        /\ AsciiNumeric(ReviewOf(p)["author_id"])
        /\ Parseable(ReviewOf(p)["submission_time"])

(* C10 as stated: any merged row with an unparseable timestamp aborts the *)
(* run.                                                                    *)
C10_AnyBadTimestampAborts ==
    (Finished /\ \E p \in MergedPairs : ~Parseable(ReviewOf(p)["submission_time"]))
        => out.status = "error"

(* C10 amended: a merged row with a non-null review_text and an           *)
(* unparseable timestamp aborts the run, whatever its reviewer id; and    *)
(* the timestamp parse fails for no other row.                             *)
C10_BadTimestampOfTextRowAborts ==
    LET bad == {p \in MergedPairs :
                    /\ ReviewOf(p)["review_text"] # NaN
                    /\ ~Parseable(ReviewOf(p)["submission_time"])}
    IN Finished =>
        /\ bad # {} => out.status = "error" /\ out = [NoOut EXCEPT
                            !.status = "error", !.raised_at = out.raised_at,
                            !.exc = out.exc, !.done = out.done]
        /\ (out.raised_at = "to_datetime") <=> bad # {}

(* The only bad timestamp sits on a row the reviewer-id filter would drop. *)
C10_Witness ==
    /\ out.status = "error"
    /\ out.raised_at = "to_datetime"
    /\ \E p \in MergedPairs : ~Parseable(ReviewOf(p)["submission_time"])
    /\ \A p \in MergedPairs :
        ~Parseable(ReviewOf(p)["submission_time"])
            => (~isdigit(ReviewOf(p)["author_id"]) /\ ReviewOf(p)["review_text"] # NaN)

-----------------------------------------------------------------------------
MissingColumns == (Cols1 \ csv1.columns) \cup (Cols2 \ csv2.columns)

(* C9: with an expected column absent from either input the run fails     *)
(* with a KeyError before any row processing: no statement of             *)
(* transform_data has run, no frame and no output exists; and the run     *)
(* fails there for no other reason.                                        *)
C9_FailsBeforeRowProcessing ==
    /\ (pc # "start" /\ MissingColumns # {}) =>
        /\ pc = "extract_failed"
        /\ out.status = "error" /\ out.exc = "KeyError" /\ out.raised_at = "extract_data"
        /\ out.done = <<>>
        /\ df1 = NoFrame /\ df2 = NoFrame
        /\ out.df_merged = <<>> /\ out.reviews_df = <<>> /\ out.product_df = <<>>
        /\ out.brand_df = <<>> /\ out.reviewer_df = <<>> /\ out.date_df = <<>>
    /\ pc = "extract_failed" => MissingColumns # {}

(* The product file lacks loves_count, the last column transform_data     *)
(* would use, and the review file has two rows.                           *)
C9_Witness ==
    /\ pc = "extract_failed"
    /\ MissingColumns = {"loves_count"}
    /\ Len(csv2.rows) = 2

-----------------------------------------------------------------------------
(* C6 as stated: no insert of the five outputs, in the loader's order,    *)
(* violates a primary-key, UNIQUE or foreign-key constraint.               *)
C6_Loadable == cause # "constraint"

TableOrder == <<"product", "brand", "reviewer", "date", "reviews">>

(* The positions from the first insert on, those included at which the   *)
(* rollback of the except branch has raised.                               *)
Loading ==
    \/ pc \in {"inserting", "rolled_back", "committed", "done"}
    \/ (pc = "raised" /\ cause \in {"constraint", "no_table", "other", "commit"})

(* C7: a failed insert leaves none of this run's rows committed; rows are *)
(* committed only after every insert of the five tables succeeded, and    *)
(* then all of them are.                                                   *)
C7_AllOrNothing ==
    Loading =>
        /\ cause # "" => warehouse.tables = EmptyTables
        /\ pc \in {"inserting", "rolled_back"} => warehouse.tables = EmptyTables
        /\ pc = "committed" => (cause = "" /\ warehouse.tables = OutTables(out))
        /\ warehouse.tables \in {EmptyTables, OutTables(out)}

(* The second fact row fails after every other row was inserted.          *)
C7_Witness ==
    /\ pc = "rolled_back"
    /\ tbl <= Len(LoadOrder)
    /\ CurrentTable = "reviews"
    /\ pos = 2
    /\ Len(out.product_df) = 2
    /\ warehouse.tables = EmptyTables

(* C8: the tables are filled in the order product, brand, reviewer, date, *)
(* reviews, each completely before the next; when the loader turns to the *)
(* fact table every dimension row is inserted, and every inserted fact    *)
(* row finds its four keys.                                                *)
C8_InsertionOrder ==
    pc = "inserting" =>
        /\ \A n \in 1..Len(TableOrder) :
            txn[TableOrder[n]] # <<>> =>
                \A m \in 1..(n - 1) : txn[TableOrder[m]] = FrameOf(out, TableOrder[m])
        /\ (tbl <= Len(LoadOrder) /\ LoadOrder[tbl] = "reviews") =>
                \A m \in 1..4 : txn[TableOrder[m]] = FrameOf(out, TableOrder[m])
        /\ \A k \in 1..Len(txn.reviews) :
            /\ txn.reviews[k]["product_id"] \in Keys(txn.product, "product_id")
            /\ txn.reviews[k]["brand_id"] \in Keys(txn.brand, "brand_id")
            /\ txn.reviews[k]["reviewer_id"] \in Keys(txn.reviewer, "reviewer_id")
            /\ txn.reviews[k]["date_id"] \in Keys(txn.date, "date_id")

(* Two fact rows are inserted after two rows of every dimension.          *)
C8_Witness ==
    /\ pc = "inserting"
    /\ Len(txn.reviews) = 2
    /\ Len(txn.product) = 2
    /\ Len(txn.brand) = 2
    /\ Len(txn.reviewer) = 2
    /\ Len(txn.date) = 2

-----------------------------------------------------------------------------
(* The categorical reviewer columns, by their input labels.                *)
Categorical == {"skin_tone", "eye_color", "skin_type", "hair_color"}

(* The merged rows left after the rows with a null review_text are gone.  *)
TextPairs == {p \in MergedPairs : ReviewOf(p)["review_text"] # NaN}

ValuesIn(S, col) == {ReviewOf(p)[col] : p \in S} \ {NaN}

CountIn(S, col, v) == Cardinality({p \in S : ReviewOf(p)[col] = v})

MostFrequent(S, col) ==
    {v \in ValuesIn(S, col) :
        \A u \in ValuesIn(S, col) : CountIn(S, col, u) <= CountIn(S, col, v)}

(* C11: when a categorical column has no non-null value among the rows    *)
(* with a text (also when no such row exists), transform_data ends with   *)
(* an error raised by the mode fill and returns no output; the mode fill  *)
(* raises in no other case.                                                *)
C11_UndefinedModeFails ==
    LET undefined == \E c \in Categorical : ValuesIn(TextPairs, c) = {}
    IN Finished =>
        /\ undefined =>
            /\ out.status = "error"
            /\ out.raised_at = "fillna_mode"
            /\ out.df_merged = <<>> /\ out.reviews_df = <<>> /\ out.product_df = <<>>
            /\ out.brand_df = <<>> /\ out.reviewer_df = <<>> /\ out.date_df = <<>>
        /\ out.raised_at = "fillna_mode" => undefined

(* Rows with a text are left, every skin tone is there, and eye_color has *)
(* no value at all.                                                        *)
C11_Witness ==
    /\ out.status = "error"
    /\ out.raised_at = "fillna_mode"
    /\ out.exc = "KeyError"
    /\ out.done = <<"merge", "rename", "dropna", "fillna_title", "fillna_mode">>
    /\ Cardinality(TextPairs) = 2
    /\ ValuesIn(TextPairs, "skin_tone") # {}
    /\ ValuesIn(TextPairs, "eye_color") = {}

(* C13: a null categorical value is replaced with a most frequent         *)
(* non-null value of its column over the merged rows with a non-null      *)
(* review_text, the rows with a non-numeric reviewer id included; other   *)
(* values stay.                                                            *)
C13_ModeOverTextRows ==
    Returned =>
        /\ \A k \in 1..Len(out.df_merged) :
            LET p == PairAt(out.df_merged[k]["index"])
            IN \A c \in Categorical :
                IF ReviewOf(p)[c] = NaN
                THEN out.df_merged[k][rename_dict(c)] \in MostFrequent(TextPairs, c)
                ELSE out.df_merged[k][rename_dict(c)] = ReviewOf(p)[c]
        /\ \A k \in 1..Len(out.reviewer_df) :
            LET d == out.reviewer_df[k]
                p == FirstMerged({q \in Survivors :
                                    int(ReviewOf(q)["author_id"]) = d["reviewer_id"]})
            IN \A c \in Categorical :
                IF ReviewOf(p)[c] = NaN
                THEN d[rename_dict(c)] \in MostFrequent(TextPairs, c)
                ELSE d[rename_dict(c)] = ReviewOf(p)[c]

(* A reviewer's null skin tone is filled with a value that the rows of    *)
(* non-numeric reviewer ids made the most frequent, while a row dropped   *)
(* for its null text carries another value.                                *)
C13_Witness ==
    /\ Returned
    /\ \E k \in 1..Len(out.reviewer_df) :
        /\ out.reviewer_df[k]["reviewer_id"] = 8
        /\ out.reviewer_df[k]["reviewer_skin_tone"] = "light"
        /\ "light" \notin MostFrequent(Survivors, "skin_tone")
        /\ "light" \notin MostFrequent(MergedPairs, "skin_tone")

(* The product_ids that occur in both raw inputs.                          *)
JoinedProducts == {ProductOf(p)["product_id"] : p \in MergedPairs}

(* The product_ids of the merged records left after cleaning.             *)
SurvivingProducts == {ProductOf(p)["product_id"] : p \in Survivors}

(* C12 as stated: product_df has exactly one row for each product_id      *)
(* present in both raw inputs.                                             *)
C12_OneRowPerJoinedProduct ==
    Returned =>
        /\ KeyUnique(out.product_df, "product_id")
        /\ Keys(out.product_df, "product_id") = JoinedProducts

(* C12: product_df has exactly one row for each product_id of a merged    *)
(* record that has a non-null review_text and a reviewer id accepted by   *)
(* the numeric filter, with the attributes of the first such record; a    *)
(* joined product whose records are all dropped has no row.               *)
C12_OneRowPerSurvivingProduct ==
    Returned =>
        /\ KeyUnique(out.product_df, "product_id")
        /\ Keys(out.product_df, "product_id") = SurvivingProducts
        /\ \A k \in 1..Len(out.product_df) :
            LET d == out.product_df[k]
                p == FirstMerged({q \in Survivors :
                                    ProductOf(q)["product_id"] = d["product_id"]})
            IN /\ d["product_name"] = ReviewOf(p)["product_name"]
               /\ d["favorites_count"] = ProductOf(p)["loves_count"]

(* Two products are joined; the only review of one of them has a          *)
(* non-numeric reviewer id, and that product has no row.                   *)
C12_Witness ==
    /\ Returned
    /\ JoinedProducts = {"P1", "P2"}
    /\ Keys(out.product_df, "product_id") = {"P1"}
    /\ Len(out.df_merged) = 1

(* The k-th record of S in the row order of the merged frame.             *)
NthMerged(S, k) ==
    CHOOSE p \in S : Cardinality({q \in S : MergedBefore(q, p)}) = k - 1

(* C14 as stated: the fact output has exactly one row for each merged     *)
(* record with a non-null review_text and a reviewer id made of the       *)
(* digits 0-9 only, in merged row order, and the k-th row has             *)
(* review_id = k.                                                          *)
C14_FactRowsAndReviewId ==
    LET accepted == {p \in MergedPairs :
                        /\ ReviewOf(p)["review_text"] # NaN
                        /\ AsciiNumeric(ReviewOf(p)["author_id"])}
    IN Returned =>
        /\ Len(out.reviews_df) = Cardinality(accepted)
        /\ \A k \in 1..Len(out.reviews_df) :
            /\ out.reviews_df[k]["review_id"] = k
            /\ k <= Cardinality(accepted)
                => PairAt(out.df_merged[k]["index"]) = NthMerged(accepted, k)

(* The positions of load_data after the DROP DATABASE of                  *)
(* create_datawarehouse has succeeded.                                     *)
Recreated ==
    \/ pc \in {"db_dropped", "db_created", "inserting", "rolled_back", "committed", "done"}
    \/ (pc = "raised" /\ cause \notin {"dw_connect", "drop_db"})

EarlierRows(n) == {EarlierRun.tables[n][i] : i \in 1..Len(EarlierRun.tables[n])}

(* C15 as stated: after load_data has ended, by a return or by an         *)
(* exception, no table holds a row of an earlier run.                      *)
C15_NoEarlierRowAfterLoad ==
    pc \in {"done", "raised"} =>
        \A n \in DOMAIN EmptyTables : \A i \in 1..Len(warehouse.tables[n]) :
            warehouse.tables[n][i] \notin EarlierRows(n)

(* C15: once create_datawarehouse has dropped the database, and so at    *)
(* every return of load_data, no table holds a row of an earlier run; the *)
(* database exists again before the first insert; the tables stay empty   *)
(* until the commit; a run that has committed leaves exactly its five     *)
(* outputs, and a run whose insertion or commit failed leaves empty       *)
(* tables.                                                                 *)
C15_FullReplacement ==
    /\ Recreated =>
        \A n \in DOMAIN EmptyTables : \A i \in 1..Len(warehouse.tables[n]) :
            warehouse.tables[n][i] \notin EarlierRows(n)
    /\ pc = "done" => Recreated
    /\ pc \in {"inserting", "rolled_back", "committed", "done"} => warehouse.exists
    /\ (Recreated /\ pc \notin {"committed", "done"}) => warehouse.tables = EmptyTables
    /\ (pc = "committed" \/ (pc = "done" /\ cause = ""))
            => warehouse.tables = OutTables(out)
    /\ (pc = "done" /\ cause # "") => warehouse.tables = EmptyTables
    /\ (pc = "raised" /\ cause \in {"dw_connect", "drop_db"})
            => warehouse \in {NoDatabase, EarlierRun}

(* An earlier run's database was dropped, this run had rows to load, its  *)
(* insertion failed, and the connection is closed on empty tables.        *)
C15_Witness ==
    /\ pc = "done"
    /\ cause = "other"
    /\ warehouse.dropped
    /\ Len(out.reviews_df) >= 1
    /\ warehouse.tables = EmptyTables

====
